---- MODULE Spec2Model ----
(***************************************************************************)
(* Job pipeline and query router of the AI knowledge agent.                *)
(*                                                                         *)
(* The model follows main.py (worker_loop, process_job_internal,           *)
(* unified_query, start_redis_worker and the module-level start-up) and    *)
(* its refactoring services/rag_service.py (RAGService.worker_loop,        *)
(* process_redis_job, unified_query).  The Redis stream, its consumer      *)
(* group and the key/value status store are modelled by what the calls     *)
(* the code makes on them do: XREADGROUP with the id ">" hands out only    *)
(* entries never delivered to the group, XACK removes an entry from the    *)
(* pending list, SETEX replaces the value stored under a key.              *)
(***************************************************************************)
EXTENDS Integers, Sequences, FiniteSets, TLC

(* ---------------- bounds of the model ---------------- *)
MaxEntries == 2        \* entries ever appended to the stream
MaxDocs == 1           \* rows a similarity query may return
MaxFill == 4           \* further plain words of a query text

(* ---------------- program constants ---------------- *)
JOB_STREAM == "ai:jobs"
CONSUMER_GROUP == "ai-workers"
RESULT_KEY_PREFIX == "ai:results:"
RESULT_TTL == 3600

JobIds == {"j1"}
NoJobId == "none"      \* data.get("job_id") of an entry without the field
Queries == {"q"}
Procs == {"p1", "p2"}  \* process instances of the service
Impls == {"main", "rag"}
None == "none"

(* A process runs the worker loop in thread 1 (module-level start-up, or   *)
(* RAGService.start_redis_worker) and, when main.py is run as a script,    *)
(* a second one in thread 2 (main()).                                      *)
Threads == Procs \X {1, 2}

VARIABLES
    impl,          \* which of the two implementations the deployment runs
    launch,        \* per process: "down", "wsgi" (imported) or "script"
    mainRan,       \* per process: main() has run (script launch only)
    model_loaded,  \* per process: the models-ready flag
    stream,        \* the job stream: sequence of [job_id, query]
    lastDelivered, \* the group's last-delivered id (index into stream)
    pending,       \* the group's pending list: entry id -> consumer name
    acked,         \* entry ids acknowledged
    kv,            \* the status store: set of [key, ttl, val]
    alive,         \* per thread: a worker loop runs in it
    pc,            \* per thread: position in worker_loop
    cur,           \* per thread: entry id in hand (0: none)
    routed,        \* per thread: the calls the router made for the job in hand
    result,        \* per thread: the result dict
    done,          \* history: per entry id, the store calls that succeeded for it
    hproc,         \* the last synchronous query: the process that served it
    hrouted,       \* ... the calls the router made for it
    hresp,         \* ... its response
    query,         \* the last classify_intent call: the query it was given
    reply,         \* ... what the model service answered, if it was called
    heuristic_result, \* ... what the heuristic pass computed
    intent,        \* ... the intent it returned
    documents,     \* the last synthesizer parse: the candidates it was given
    raw_response,  \* ... the reply of the generation service
    llama_result,  \* ... the result it returned
    file_embeddings, \* the similarity store: its rows, ranked for the query
    search_limit,  \* the last search-mode query: the limit of its intent
    files,         \* ... the files of its response
    db_pool,       \* the connection pool is initialised
    checked_out,   \* the connections checked out of the pool
    flow,          \* per thread in the router: where it is
    init,          \* the call of init_db_pool under way, or the last one
    request,       \* what get_db_connection gave the last request
    tags,          \* what the model service reports of its models
    chk            \* per health thread and the background thread: where it is

vars == <<impl, launch, mainRan, model_loaded, stream, lastDelivered, pending,
          acked, kv, alive, pc, cur, routed, result, done,
          hproc, hrouted, hresp, query, reply, heuristic_result, intent,
          documents, raw_response, llama_result,
          file_embeddings, search_limit, files, db_pool, checked_out, flow,
          init, request, tags, chk>>

procVars == <<launch, mainRan>>
streamVars == <<stream, lastDelivered, pending, acked>>
workerVars == <<alive, pc, cur, routed, result, done>>
httpVars == <<hproc, hrouted, hresp>>
classifyVars == <<query, reply, heuristic_result, intent>>
synthVars == <<documents, raw_response, llama_result>>
searchVars == <<file_embeddings, search_limit, files>>
poolVars == <<db_pool, checked_out, flow>>
initVars == <<init, request>>
healthVars == <<tags, chk>>
unitVars == <<synthVars, searchVars, poolVars, initVars, healthVars>>

(* ---------------- helpers ---------------- *)

\* os.getpid(): distinct for distinct processes
Pid(p) == p
\* consumer_name = f"worker-{os.getpid()}"
ConsumerName(t) == <<"worker", Pid(t[1])>>

\* the pending list after entry e was delivered to the consumer of thread t
ConsumerNameOr(x, e, t) == IF x = e THEN ConsumerName(t) ELSE pending[x]

Key(j) == <<RESULT_KEY_PREFIX, j>>

JobOf(e) == stream[e].job_id
QueryOf(e) == stream[e].query

\* (variant: the value is added and the old one kept)
SetEx_KeepOld(store, key, ttl, val) ==
    store \cup {[key |-> key, ttl |-> ttl, val |-> val]}

\* (variant: a plain SET, the value is stored with no expiry)
SetEx_Persist(store, key, ttl, val) ==
    {r \in store : r.key # key} \cup {[key |-> key, ttl |-> 0, val |-> val]}

\* redis SETEX: the value stored under the key is replaced
SetEx(store, key, ttl, val) ==
    {r \in store : r.key # key} \cup {[key |-> key, ttl |-> ttl, val |-> val]}

HasKey(store, key) == \E r \in store : r.key = key
Get(store, key) == (CHOOSE r \in store : r.key = key).val

\* A routed response: the mode, the answer text, the confidence and the
\* number of candidates it was built from
NoBody == [mode |-> None, answer |-> None, confidence |-> None, ndocs |-> 0]
NoDocsBody == [mode |-> "answer", answer |-> "Keine relevanten Dokumente gefunden.",
               confidence |-> "NIEDRIG", ndocs |-> 0]
AnswerBody(n) == [mode |-> "answer", answer |-> "llama",
                  confidence |-> "parsed", ndocs |-> n]
SearchBody(n) == [mode |-> "search", answer |-> None,
                  confidence |-> None, ndocs |-> n]

\* The value stored under a job's key
NoResult == [job_id |-> None, status |-> None, query |-> None,
             body |-> NoBody, error |-> None, completed_at |-> None]

\* json.dumps({"job_id", "status": "processing", "query"}); the refactored
\* service leaves the query out
ProcessingRecord(variant, j, q) ==
    [NoResult EXCEPT !.job_id = j, !.status = "processing",
                     !.query = IF variant = "main" THEN q ELSE None]

\* What the router hands back.  main.py: process_job_internal returns a dict
\* with status "completed", or catches the exception and returns
\* {"status": "failed", "error": str(e)}.  rag_service.py: unified_query
\* returns the response or raises.
Returned(body) == [NoResult EXCEPT !.status = "completed", !.body = body]
Raised(err) == [NoResult EXCEPT !.status = "failed", !.error = err]

\* (variant: the status is set to "completed" on whatever came back)
JobResult_AlwaysCompleted(variant, j, r) ==
    [r EXCEPT !.job_id = j, !.status = "completed", !.completed_at = "now"]

\* main.py 1217-1226: result["job_id"] and result["completed_at"] are set on
\* whatever process_job_internal returned.  rag_service.py 383-388: job_id,
\* status and completed_at are set on the response; the except branch builds
\* {"job_id", "status": "failed", "error"}.
JobResult(variant, j, r) ==
    [r EXCEPT !.job_id = j,
              !.completed_at = IF r.status = "completed" \/ variant = "main"
                               THEN "now" ELSE None]

\* The HTTP response of the synchronous query route
NoResponse == [code |-> 0, body |-> NoBody, error |-> None]
OkResponse(body) == [code |-> 200, body |-> body, error |-> None]
ErrorResponse(code, err) == [code |-> code, body |-> NoBody, error |-> err]

(* ---------------- the router ---------------- *)
(* process_job_internal and unified_query (main.py), and                   *)
(* RAGService.unified_query: the same steps in the same order.  The        *)
(* replies of the model service and of the similarity store are inputs:    *)
(* the type the classifier returns, whether the embedding, the retrieval   *)
(* and the generation call raise, the number of rows retrieved.  No step   *)
(* of the router reads or writes the stream or the status store, so one    *)
(* router run is one step of the thread that makes it.                     *)

IntentTypes == {"search", "question"}

RouterInputs ==
    [ty : IntentTypes, embedOk : BOOLEAN, storeOk : BOOLEAN,
     n : 0..MaxDocs, genOk : BOOLEAN]

\* [calls: the calls made, in order; raised: the step that failed, if any
\*  (a call that raised, or the models-ready check); out: what the router
\*  hands back]
Outcome(calls, raised, out) == [calls |-> calls, raised |-> raised, out |-> out]

NoRun == Outcome(<<>>, None, NoResult)

\* (variant: a failure of the similarity query is taken for an empty result)
RouteQuery_StoreAbsorbed(loaded, in) ==
    IF ~loaded
    THEN Outcome(<<>>, "model_loaded", Raised("Ollama not loaded"))
    ELSE IF ~in.embedOk
    THEN Outcome(<<"classify", "embed">>, "embed", Raised("embedding failed"))
    ELSE IF ~in.storeOk
    THEN Outcome(<<"classify", "embed", "retrieve">>, "retrieve",
                 Returned(IF in.ty = "question" THEN NoDocsBody ELSE SearchBody(0)))
    ELSE IF in.ty = "question"
    THEN IF in.n = 0
         THEN Outcome(<<"classify", "embed", "retrieve">>, None,
                      Returned(NoDocsBody))
         ELSE IF ~in.genOk
         THEN Outcome(<<"classify", "embed", "retrieve", "generate">>,
                      "generate", Raised("generation failed"))
         ELSE Outcome(<<"classify", "embed", "retrieve", "generate">>, None,
                      Returned(AnswerBody(in.n)))
    ELSE Outcome(<<"classify", "embed", "retrieve">>, None,
                 Returned(SearchBody(in.n)))

\* (variant: the generation is called whatever the retrieval returned)
RouteQuery_GenerateOnEmpty(loaded, in) ==
    IF ~loaded
    THEN Outcome(<<>>, "model_loaded", Raised("Ollama not loaded"))
    ELSE IF ~in.embedOk
    THEN Outcome(<<"classify", "embed">>, "embed", Raised("embedding failed"))
    ELSE IF ~in.storeOk
    THEN Outcome(<<"classify", "embed", "retrieve">>, "retrieve",
                 Raised("store failed"))
    ELSE IF in.ty = "question"
    THEN IF ~in.genOk
         THEN Outcome(<<"classify", "embed", "retrieve", "generate">>,
                      "generate", Raised("generation failed"))
         ELSE Outcome(<<"classify", "embed", "retrieve", "generate">>, None,
                      Returned(AnswerBody(in.n)))
    ELSE Outcome(<<"classify", "embed", "retrieve">>, None,
                 Returned(SearchBody(in.n)))

\* (variant: the models-ready flag is not looked at)
RouteQuery_FlagIgnored(loaded, in) ==
    IF ~in.embedOk
    THEN Outcome(<<"classify", "embed">>, "embed", Raised("embedding failed"))
    ELSE IF ~in.storeOk
    THEN Outcome(<<"classify", "embed", "retrieve">>, "retrieve",
                 Raised("store failed"))
    ELSE IF in.ty = "question"
    THEN IF in.n = 0
         THEN Outcome(<<"classify", "embed", "retrieve">>, None,
                      Returned(NoDocsBody))
         ELSE IF ~in.genOk
         THEN Outcome(<<"classify", "embed", "retrieve", "generate">>,
                      "generate", Raised("generation failed"))
         ELSE Outcome(<<"classify", "embed", "retrieve", "generate">>, None,
                      Returned(AnswerBody(in.n)))
    ELSE Outcome(<<"classify", "embed", "retrieve">>, None,
                 Returned(SearchBody(in.n)))

RouteQuery(loaded, in) ==
    IF ~loaded
    THEN Outcome(<<>>, "model_loaded", Raised("Ollama not loaded"))
    ELSE IF ~in.embedOk
    THEN Outcome(<<"classify", "embed">>, "embed", Raised("embedding failed"))
    ELSE IF ~in.storeOk
    THEN Outcome(<<"classify", "embed", "retrieve">>, "retrieve",
                 Raised("store failed"))
    ELSE IF in.ty = "question"
    THEN IF in.n = 0
         THEN Outcome(<<"classify", "embed", "retrieve">>, None,
                      Returned(NoDocsBody))
         ELSE IF ~in.genOk
         THEN Outcome(<<"classify", "embed", "retrieve", "generate">>,
                      "generate", Raised("generation failed"))
         ELSE Outcome(<<"classify", "embed", "retrieve", "generate">>, None,
                      Returned(AnswerBody(in.n)))
    ELSE Outcome(<<"classify", "embed", "retrieve">>, None,
                 Returned(SearchBody(in.n)))

\* the runs of the router, over every reply of the services it calls
RouterRuns(loaded) == {RouteQuery(loaded, in) : in \in RouterInputs}

(* ---------------- the intent classifier ---------------- *)
(* intent_classifier.py.  A query text is given by its parts, in the order  *)
(* they stand in the text: a first word, an optional comma after it, an     *)
(* optional second word, some further plain words, an optional four-digit   *)
(* token, an optional file name "name.<ext>", and the character that ends   *)
(* the text.  The patterns of the code are evaluated on these parts.        *)

\* the first words the queries of the model start with
Heads == {"alle", "liste", "list", "was", "die", "file", "rechnung"}
Seconds == {"rechnung", "rechnungen"}
YearTokens == {"2023", "1999"}
FileExts == {"pdf", "csv"}
\* the end of the text; "? ": a question mark followed by blanks
Tails == {"", "?", "? ", "."}

NoQuery == [head |-> None, comma |-> FALSE, second |-> None, fill |-> 0,
            year |-> None, file |-> None, tail |-> None]
\* the empty text (or one of blanks only)
EmptyQuery == [NoQuery EXCEPT !.head = "", !.tail = ""]

QueryTexts ==
    [head : Heads, comma : BOOLEAN, second : Seconds \cup {None},
     fill : {0, MaxFill}, year : YearTokens \cup {None},
     file : FileExts \cup {None}, tail : Tails]
        \cup {EmptyQuery}

\* int(year_match.group(1)) of a four-digit token
IntOf(tok) ==
    CASE tok = "2023" -> 2023
      [] tok = "1999" -> 1999
      [] OTHER -> 0

\* LIMIT_MAP
LIMIT_MAP == [h \in {"exact_match", "few", "many"} |->
                 IF h = "exact_match" THEN 3 ELSE IF h = "few" THEN 10 ELSE 50]
\* (variant: the default is taken whatever the count_hint)
LimitOf_Default(count_hint) == 10

\* LIMIT_MAP.get(count_hint, 10)
LimitOf(count_hint) ==
    IF count_hint \in DOMAIN LIMIT_MAP THEN LIMIT_MAP[count_hint] ELSE 10

\* filters: {} is [year |-> 0, file_type |-> None]
NoFilters == [year |-> 0, file_type |-> None]

\* An intent; confidence in hundredths.  refined_query is "query" (the text
\* classify_intent was given) or the text the model gave.
NoIntent == [type |-> None, count_hint |-> None, refined_query |-> None,
             filters |-> NoFilters, confidence |-> 0, limit |-> 0]

\* {**DEFAULT_INTENT, "refined_query": query, "limit": LIMIT_MAP["few"]}
DEFAULT_INTENT ==
    [type |-> "search", count_hint |-> "few", refined_query |-> "query",
     filters |-> NoFilters, confidence |-> 50, limit |-> LIMIT_MAP["few"]]

\* not query or not query.strip()
IsBlank(q) == q.head = ""

\* the end of query.strip()
Strip(tail) == IF tail = "? " THEN "?" ELSE tail

\* (variant: the text is not stripped before the test)
EndsWithQuestionMark_NoStrip(q) == q.tail = "?"

\* query.strip().endswith("?")
EndsWithQuestionMark(q) == Strip(q.tail) = "?"

\* question_word_patterns (the one-word alternatives)
QuestionWords ==
    {"was", "wer", "wie", "warum", "wann", "wo", "welche", "welcher", "welches",
     "erkläre", "erklär", "beschreibe", "fasse", "zusammenfassung", "nenne",
     "liste", "zeige", "what", "how", "why", "when", "where", "who", "which",
     "bitte"}
StartsWithQuestionWord(q) == q.head \in QuestionWords

\* len(query.split())
WordCount(q) ==
    1 + (IF q.second # None THEN 1 ELSE 0) + q.fill
      + (IF q.year # None THEN 1 ELSE 0) + (IF q.file # None THEN 1 ELSE 0)

\* has_comma = "," in query
HasComma(q) == q.comma
\* has_period = "." in query and not query.strip().endswith(".")
HasPeriod(q) == (q.file # None \/ q.tail = ".") /\ Strip(q.tail) # "."

\* bulk_patterns
BulkWords == {"alle", "sämtliche", "jede", "all", "every", "list", "liste"}
BulkPattern(q) == q.head \in BulkWords

\* specific_patterns: ^(die|das|der)\s+(datei|dokument|rechnung|vertrag)\b,
\* ^(file|document)\s+\w+, \.(pdf|txt|doc|xlsx?)$
SpecificPattern(q) ==
    \/ /\ q.head \in {"die", "das", "der"} /\ ~q.comma
       /\ q.second \in {"datei", "dokument", "rechnung", "vertrag"}
    \/ q.head \in {"file", "document"} /\ ~q.comma /\ WordCount(q) > 1
    \/ q.file \in {"pdf", "txt", "doc", "xls", "xlsx"} /\ Strip(q.tail) = ""

\* re.search(r"\b(20\d{2})\b", query)
YearMatch(q) ==
    IF q.year # None /\ IntOf(q.year) >= 2000 /\ IntOf(q.year) <= 2099
    THEN IntOf(q.year) ELSE 0

\* re.search(r"\.(pdf|txt|doc|docx|xlsx?|csv|json|md)\b", query_lower)
TypeMatch(q) ==
    IF q.file \in {"pdf", "txt", "doc", "docx", "xls", "xlsx", "csv", "json", "md"}
    THEN q.file ELSE None

Max(a, b) == IF a >= b THEN a ELSE b

\* _heuristic_classify(query)
HeuristicClassify(q) ==
    IF EndsWithQuestionMark(q)
    THEN [type |-> "question", count_hint |-> "few", refined_query |-> "query",
          filters |-> NoFilters, confidence |-> 98, limit |-> LimitOf("few")]
    ELSE LET ty1 == IF StartsWithQuestionWord(q) THEN "question" ELSE "search"
             cf1 == IF StartsWithQuestionWord(q) THEN 92 ELSE 70
             complex == /\ ty1 = "search"
                        /\ (HasComma(q) \/ HasPeriod(q))
                        /\ WordCount(q) > 5
             ty2 == IF complex THEN "question" ELSE ty1
             cf2 == IF complex THEN 91 ELSE cf1
             ch3 == IF BulkPattern(q) THEN "many" ELSE "few"
             cf3 == IF BulkPattern(q) THEN Max(cf2, 80) ELSE cf2
             ch4 == IF SpecificPattern(q) THEN "exact_match" ELSE ch3
             cf4 == IF SpecificPattern(q) THEN Max(cf3, 80) ELSE cf3
         IN  [type |-> ty2, count_hint |-> ch4, refined_query |-> "query",
              filters |-> [year |-> YearMatch(q), file_type |-> TypeMatch(q)],
              confidence |-> cf4, limit |-> LimitOf(ch4)]

(* The raw text the model service answers is a sequence of tokens: free    *)
(* text, an opening brace, a closing brace, a member "key": value, and the *)
(* key "filters": whose value is the object that follows it.               *)
Tok(k, v) == [k |-> k, v |-> v]
Open == Tok("{", "")
Close == Tok("}", "")
Text == Tok("text", "")
FiltersKey == Tok("filters:", "")
MemberKeys == {"type", "count_hint", "refined_query", "filters", "year", "file_type"}

Member(k, v) == IF v = None THEN <<>> ELSE <<Tok(k, v)>>
Members(t, c, r) ==
    Member("type", t) \o Member("count_hint", c) \o Member("refined_query", r)

\* {"type": t, "count_hint": c, "refined_query": r}
FlatObject(t, c, r) == <<Open>> \o Members(t, c, r) \o <<Close>>
\* the format the system prompt asks for:
\* {"type": t, "count_hint": c, "refined_query": r,
\*  "filters": {"year": y, "file_type": f}}
RequestedObject(t, c, r, y, f) ==
    <<Open>> \o Members(t, c, r)
        \o <<FiltersKey, Open, Tok("year", y), Tok("file_type", f), Close, Close>>

ReplyTypes == {"search", "question"}
ReplyHints == {"exact_match", "few", "many"}

RawResponses ==
    {<<>>, <<Text>>, <<Open, Text, Close>>}
        \cup {FlatObject(t, c, r) :
                 t \in ReplyTypes \cup {"bogus", None},
                 c \in ReplyHints \cup {"bogus", None},
                 r \in {"refined", "", None}}
        \cup {pre \o RequestedObject(t, c, "refined", y, f) \o pre :
                 pre \in {<<>>, <<Text>>}, t \in ReplyTypes, c \in ReplyHints,
                 y \in {"2023", "null"}, f \in {"pdf", "null"}}

\* What the call of the model service gives: it raises (a timeout, an HTTP
\* or connection error), or it returns the raw text
NoReply == [called |-> FALSE, raised |-> None, raw |-> <<>>]
Replies ==
    {[called |-> TRUE, raised |-> e, raw |-> <<>>] : e \in {"timeout", "error"}}
        \cup {[called |-> TRUE, raised |-> None, raw |-> r] : r \in RawResponses}

\* re.search(r'\{[^{}]*\}', raw): the leftmost opening brace that is closed
\* with no brace in between
MatchesAt(raw, i, j) ==
    /\ i < j
    /\ raw[i] = Open /\ raw[j] = Close
    /\ \A n \in (i + 1)..(j - 1) : raw[n] # Open /\ raw[n] # Close
StartsMatch(raw, i) == \E j \in DOMAIN raw : MatchesAt(raw, i, j)
HasJsonMatch(raw) == \E i \in DOMAIN raw : StartsMatch(raw, i)
JsonMatch(raw) ==
    LET i == CHOOSE i \in DOMAIN raw :
                 StartsMatch(raw, i) /\ \A n \in 1..(i - 1) : ~StartsMatch(raw, n)
        j == CHOOSE j \in DOMAIN raw : MatchesAt(raw, i, j)
    IN  SubSeq(raw, i + 1, j - 1)

\* json.loads(json_match.group()) raises JSONDecodeError unless the text
\* between the braces is a list of members
IsJson(members) == \A n \in DOMAIN members : members[n].k \in MemberKeys
\* parsed.get(key)
ParsedGet(members, key) ==
    IF \E n \in DOMAIN members : members[n].k = key
    THEN members[CHOOSE n \in DOMAIN members :
                     /\ members[n].k = key
                     /\ \A m \in DOMAIN members : members[m].k = key => m <= n].v
    ELSE None

\* _parse_llama_json(raw, original_query).  (A member of a match has no
\* brace in it, so parsed.get("filters") is never a dict and the filters
\* stay {}.)
ParseLlamaJson(raw) ==
    LET dflt == [type |-> "search", count_hint |-> "few",
                   refined_query |-> "query", filters |-> NoFilters,
                   confidence |-> 80, limit |-> LimitOf("few")]
    IN  IF ~HasJsonMatch(raw) \/ ~IsJson(JsonMatch(raw))
        THEN dflt
        ELSE LET parsed == JsonMatch(raw)
                 ty == IF ParsedGet(parsed, "type") \in {"search", "question"}
                       THEN ParsedGet(parsed, "type") ELSE dflt.type
                 ch == IF ParsedGet(parsed, "count_hint") \in {"exact_match", "few", "many"}
                       THEN ParsedGet(parsed, "count_hint") ELSE dflt.count_hint
                 rq == IF ParsedGet(parsed, "refined_query") \notin {None, "null", ""}
                       THEN ParsedGet(parsed, "refined_query") ELSE dflt.refined_query
             IN  [type |-> ty, count_hint |-> ch, refined_query |-> rq,
                  filters |-> NoFilters, confidence |-> 90, limit |-> LimitOf(ch)]

\* (variant: the threshold is the confidence of a question word)
NeedsLlama_BelowQuestionWord(h) == h.confidence < 92

\* if heuristic_result["confidence"] >= 0.9: return heuristic_result
NeedsLlama(h) == h.confidence < 90

\* classify_intent(query); rep: what the model service does if it is called
ClassifyIntent(q, rep) ==
    /\ query = NoQuery
    /\ query' = q
    /\ IF IsBlank(q)
       THEN /\ heuristic_result' = NoIntent
            /\ reply' = NoReply
            /\ intent' = DEFAULT_INTENT
       ELSE LET h == HeuristicClassify(q) IN
            /\ heuristic_result' = h
            /\ IF ~NeedsLlama(h)
               THEN reply' = NoReply /\ intent' = h
               ELSE /\ reply' = rep
                    /\ intent' = IF rep.raised # None
                                 THEN h
                                 ELSE ParseLlamaJson(rep.raw)
    /\ UNCHANGED <<unitVars, impl, procVars, model_loaded, streamVars, kv,
                   workerVars, httpVars>>

(* ---------------- the answer synthesizer's parser ---------------- *)
(* parse_llama_response of main.py and _parse_llama_response of            *)
(* rag_service.py, which are the same code.  A text is a sequence of       *)
(* units; the labels, the line break and the section delimiter are one     *)
(* unit each, and "x in y" is the search for a contiguous run of units.    *)

MaxCandidates == 2

SOURCES_LABEL == "RELEVANTE QUELLEN:"
CONFIDENCE_LABEL == "KONFIDENZ:"
ANSWER_LABEL == "ANTWORT:"
Newline == "\n"
Delimiter == "---"
TxtSuffix == ".txt"

\* a value that is not a text (None, a number): "x in y" raises on it
NotText == <<"\\None">>
IsText(s) == s # NotText

\* value in text
Contains(text, value) ==
    \E i \in 1..(Len(text) + 1) :
        /\ i + Len(value) - 1 <= Len(text)
        /\ \A k \in 1..Len(value) : text[i + k - 1] = value[k]

\* the index of the first unit that is the mark (0: none)
Find(text, mark) ==
    IF \E i \in DOMAIN text : text[i] = mark
    THEN CHOOSE i \in DOMAIN text :
             text[i] = mark /\ \A k \in 1..(i - 1) : text[k] # mark
    ELSE 0

\* text.split(mark)[0]
SplitHead(text, mark) ==
    IF Find(text, mark) = 0 THEN text ELSE SubSeq(text, 1, Find(text, mark) - 1)

\* text.split(mark)[1], for a text that holds the mark
SplitSecond(text, mark) ==
    SplitHead(SubSeq(text, Find(text, mark) + 1, Len(text)), mark)

\* text.strip()
Whitespace == {" ", Newline}
RECURSIVE StripText(_)
StripText(text) ==
    IF text = <<>> THEN text
    ELSE IF Head(text) \in Whitespace THEN StripText(Tail(text))
    ELSE IF text[Len(text)] \in Whitespace
    THEN StripText(SubSeq(text, 1, Len(text) - 1))
    ELSE text

\* text.lower() and text.upper(), on the words the parser compares
LowerUnit(u) ==
    CASE u \in {"Keine", "KEINE"} -> "keine"
      [] u = "HOCH" -> "hoch"
      [] u = "MITTEL" -> "mittel"
      [] u = "NIEDRIG" -> "niedrig"
      [] OTHER -> u
UpperUnit(u) ==
    CASE u \in {"Keine", "keine"} -> "KEINE"
      [] u = "hoch" -> "HOCH"
      [] u = "mittel" -> "MITTEL"
      [] u = "niedrig" -> "NIEDRIG"
      [] u = "x" -> "X"
      [] OTHER -> u
LowerText(text) == [i \in DOMAIN text |-> LowerUnit(text[i])]
UpperText(text) == [i \in DOMAIN text |-> UpperUnit(text[i])]

\* file_id.replace('.txt', '')
RemoveTxt(id) == SelectSeq(id, LAMBDA u : u # TxtSuffix)

\* The document candidates handed to the synthesizer.  The store's schema
\* is not part of the source: a row's file_id is a text, or NULL.
IdA == <<"a", TxtSuffix>>
IdB == <<"b", TxtSuffix>>
Candidates ==
    { [file_id |-> IdA, file_path |-> "/mnt/data/a.txt", similarity |-> 90],
      [file_id |-> IdB, file_path |-> "/mnt/data/b.txt", similarity |-> 80],
      [file_id |-> NotText, file_path |-> "/mnt/data/c", similarity |-> 70] }
CandidateLists ==
    UNION { [1..n -> Candidates] : n \in 0..MaxCandidates }

\* The replies of the generation service: the three labelled sections of
\* the requested format, each present or not, in the requested order or
\* with the answer first, framed by delimiter lines or not; or no text.
SourceLines ==
    { <<>>, <<"Keine">>, <<"[]">>, <<"x">>, IdA, <<"a">>,
      IdA \o <<",", " ">> \o IdB, IdB \o <<",", " ">> \o IdA,
      <<"a", "b", TxtSuffix>> }
ConfidenceLines == { <<"HOCH">>, <<"hoch">>, <<"NIEDRIG">>, <<"x">> }
AnswerTexts == { <<"x">>, <<"x", Newline, Delimiter, Newline, "x">> }
Section(label, bodies) ==
    {<<>>} \cup { <<label, " ">> \o b \o <<Newline>> : b \in bodies }
Framed(text) == <<Delimiter, Newline>> \o text \o <<Delimiter>>
RawTexts ==
    LET plain ==
            { q \o k \o a : q \in Section(SOURCES_LABEL, SourceLines),
                            k \in Section(CONFIDENCE_LABEL, ConfidenceLines),
                            a \in Section(ANSWER_LABEL, AnswerTexts) }
            \cup
            { a \o q \o k : q \in Section(SOURCES_LABEL, SourceLines),
                            k \in Section(CONFIDENCE_LABEL, ConfidenceLines),
                            a \in Section(ANSWER_LABEL, AnswerTexts) }
    IN  plain \cup { Framed(t) : t \in plain } \cup {NotText}

CONFIDENCE_LEVELS == { <<"HOCH">>, <<"MITTEL">>, <<"NIEDRIG">> }
NoParse == [answer |-> <<>>, cited_sources |-> <<>>, confidence |-> None,
            raw_response |-> <<>>]

\* result["cited_sources"].append({...})
SourceEntry(doc) ==
    [file_id |-> doc.file_id, file_path |-> doc.file_path,
     similarity |-> doc.similarity]

\* (variant: a candidate is cited once for its id and once for its id
\* without the suffix)
RECURSIVE MatchSources_PerForm(_, _, _, _)
MatchSources_PerForm(sources_line, docs, i, cited) ==
    IF i > Len(docs) THEN [cited |-> cited, raised |-> FALSE]
    ELSE IF ~IsText(docs[i].file_id) THEN [cited |-> cited, raised |-> TRUE]
    ELSE MatchSources_PerForm(sources_line, docs, i + 1,
             cited \o (IF Contains(sources_line, docs[i].file_id)
                       THEN <<SourceEntry(docs[i])>> ELSE <<>>)
                   \o (IF Contains(sources_line, RemoveTxt(docs[i].file_id))
                       THEN <<SourceEntry(docs[i])>> ELSE <<>>))

\* for doc in documents: if doc['file_id'] in sources_line or
\* doc['file_id'].replace('.txt', '') in sources_line: append.  The test
\* raises on a file_id that is not a text; what was appended before stays
\* in the result.
RECURSIVE MatchSources(_, _, _, _)
MatchSources(sources_line, docs, i, cited) ==
    IF i > Len(docs) THEN [cited |-> cited, raised |-> FALSE]
    ELSE IF ~IsText(docs[i].file_id) THEN [cited |-> cited, raised |-> TRUE]
    ELSE IF \/ Contains(sources_line, docs[i].file_id)
            \/ Contains(sources_line, RemoveTxt(docs[i].file_id))
    THEN MatchSources(sources_line, docs, i + 1,
                      Append(cited, SourceEntry(docs[i])))
    ELSE MatchSources(sources_line, docs, i + 1, cited)

\* the sources part of the try block
SourcesPart(raw, docs) ==
    IF ~Contains(raw, <<SOURCES_LABEL>>)
    THEN [cited |-> <<>>, raised |-> FALSE]
    ELSE LET sources_line ==
                 StripText(SplitHead(SplitSecond(raw, SOURCES_LABEL), Newline))
         IN  IF LowerText(sources_line) # <<"keine">> /\ sources_line # <<"[]">>
             THEN MatchSources(sources_line, docs, 1, <<>>)
             ELSE [cited |-> <<>>, raised |-> FALSE]

\* the confidence part of the try block
ConfidencePart(raw) ==
    IF ~Contains(raw, <<CONFIDENCE_LABEL>>) THEN "MITTEL"
    ELSE LET conf_line ==
                 UpperText(StripText(
                     SplitHead(SplitSecond(raw, CONFIDENCE_LABEL), Newline)))
         IN  IF conf_line \in CONFIDENCE_LEVELS THEN conf_line[1] ELSE "MITTEL"

\* the answer part of the try block
AnswerPart(raw) ==
    IF ~Contains(raw, <<ANSWER_LABEL>>) THEN raw
    ELSE LET answer_part == StripText(SplitSecond(raw, ANSWER_LABEL))
         IN  IF Contains(answer_part, <<Delimiter>>)
             THEN StripText(SplitHead(answer_part, Delimiter))
             ELSE answer_part

\* the parse raises: on a reply that is not a text at the first test, or
\* in the loop over the candidates
ParseRaises(raw, docs) == ~IsText(raw) \/ SourcesPart(raw, docs).raised

\* parse_llama_response(raw, documents): the except branch only logs, so
\* the result is what the try block had set when the exception came
ParseLlamaResponse(raw, docs) ==
    LET dflt == [answer |-> raw, cited_sources |-> <<>>,
                 confidence |-> "MITTEL", raw_response |-> raw]
    IN  IF ~IsText(raw) THEN dflt
        ELSE IF SourcesPart(raw, docs).raised
        THEN [dflt EXCEPT !.cited_sources = SourcesPart(raw, docs).cited]
        ELSE [answer |-> AnswerPart(raw),
              cited_sources |-> SourcesPart(raw, docs).cited,
              confidence |-> ConfidencePart(raw),
              raw_response |-> raw]

\* result = parse_llama_response(raw_response, documents), in
\* get_llama_response
GetLlamaResponse(raw, docs) ==
    /\ raw_response' = raw
    /\ documents' = docs
    /\ llama_result' = ParseLlamaResponse(raw, docs)
    /\ UNCHANGED <<classifyVars, searchVars, poolVars, initVars, healthVars, impl, procVars, model_loaded, streamVars, kv,
                   workerVars, httpVars>>

(* ---------------- retrieval and the search-mode result ---------------- *)
(* The similarity store is the table file_embeddings, held here in the     *)
(* order "ORDER BY embedding <=> query" gives it for the query at hand.    *)

MaxRows == 4
PREVIEW_LENGTH == 500

FileIdsInTurn == <<"f1", "f2", "f3", "f4", "f5", "f6">>
FileIds == {FileIdsInTurn[i] : i \in 1..MaxRows}

\* a content of n units: unit i is the i-th of the text (content.strip()
\* is not empty, or /process skips the file)
Content(n) == [i \in 1..n |-> i]
ContentLengths == {1, PREVIEW_LENGTH + 1}

\* metadata->>'file_path': under /mnt/data/ and not in a .trash folder, or
\* anything else ("memory" for pushed content)
FilePaths == {"/mnt/data/x", "memory"}
NoFiles == <<[file_id |-> None, file_path |-> None, content |-> <<>>,
              similarity |-> 0]>>

\* the rows other than the one of file_id
Without(table, file_id) == SelectSeq(table, LAMBDA r : r.file_id # file_id)

\* table with row at rank pos
InsertAt(table, pos, row) ==
    SubSeq(table, 1, pos - 1) \o <<row>> \o SubSeq(table, pos, Len(table))

\* /process: INSERT INTO file_embeddings ... ON CONFLICT (file_id,
\* chunk_index) DO UPDATE: the file's row is written or replaced; its rank
\* for the query is wherever its embedding puts it
SaveEmbedding(file_id, n, path, pos) ==
    /\ Len(Without(file_embeddings, file_id)) < MaxRows
    /\ pos \in 1..(Len(Without(file_embeddings, file_id)) + 1)
    /\ file_embeddings' =
           InsertAt(Without(file_embeddings, file_id), pos,
                    [file_id |-> file_id, file_path |-> path,
                     content |-> Content(n)])
    /\ UNCHANGED <<search_limit, files>>
    /\ UNCHANGED <<classifyVars, synthVars, poolVars, initVars, healthVars, impl, procVars, model_loaded,
                   streamVars, kv, workerVars, httpVars>>

\* the id of the next new file
NextFileId == FileIdsInTurn[Len(file_embeddings) + 1]

\* WHERE (metadata->>'file_path') LIKE '/mnt/data/%' AND ... NOT LIKE
\* '%/.trash/%'
InCorpus(row) == row.file_path = "/mnt/data/x"

\* (variant: the query has no LIMIT)
SearchSimilar_NoLimit(table, limit) ==
    LET hits == SelectSeq(table, InCorpus)
    IN  [i \in 1..Len(hits) |->
            [file_id |-> hits[i].file_id, file_path |-> hits[i].file_path,
             content |-> hits[i].content, similarity |-> 100 - i]]

\* SELECT file_id, content, metadata, 1 - (embedding <=> q) ... ORDER BY
\* embedding <=> q LIMIT limit; docs.append({...}) for each row fetched
SearchSimilar(table, limit) ==
    LET hits == SelectSeq(table, InCorpus)
        n == IF Len(hits) < limit THEN Len(hits) ELSE limit
    IN  [i \in 1..n |->
            [file_id |-> hits[i].file_id, file_path |-> hits[i].file_path,
             content |-> hits[i].content, similarity |-> 100 - i]]

\* (variant: the content is returned whole)
Preview_Whole(content) == content

\* doc["content"][:500]
Preview(content) ==
    SubSeq(content, 1,
           IF Len(content) < PREVIEW_LENGTH THEN Len(content) ELSE PREVIEW_LENGTH)

\* files.append({"file_id", "file_path", "content": doc["content"][:500],
\* "similarity"}) for doc in docs
SearchFiles(docs) ==
    [i \in DOMAIN docs |-> [docs[i] EXCEPT !.content = Preview(docs[i].content)]]

\* the limits classify_intent gives: LIMIT_MAP.get(count_hint, 10)
Limits == {LimitOf(h) : h \in DOMAIN LIMIT_MAP \cup {None}}

\* unified_query for an intent of type search: limit = intent["limit"],
\* the retrieval, then the files of the response
SearchMode(limit) ==
    /\ search_limit' = limit
    /\ files' = SearchFiles(SearchSimilar(file_embeddings, limit))
    /\ UNCHANGED file_embeddings
    /\ UNCHANGED <<classifyVars, synthVars, poolVars, initVars, healthVars, impl, procVars, model_loaded,
                   streamVars, kv, workerVars, httpVars>>

(* ---------------- the connection pool under the router ---------------- *)
(* The router statement by statement, in several threads at once (request  *)
(* handlers and the worker loop): the embedding call, "with                *)
(* get_db_connection() as conn" around the SELECT, the generation call.    *)

Flows == {"request", "worker"}

\* a thread's place in the router: its statement, the connection its with
\* block holds, the intent's type, the docs fetched, the exception on its
\* way up
NoFlow == [pc |-> "idle", conn |-> FALSE, ty |-> None, n |-> 0, raised |-> None]
At(f, place) == flow[f].pc = place

\* unified_query / process_job_internal is entered: classify_intent(query),
\* then the embedding call is under way
BeginQuery(f, ty) ==
    /\ At(f, "idle")
    /\ flow' = [flow EXCEPT ![f] = [NoFlow EXCEPT !.pc = "embed", !.ty = ty]]
    /\ UNCHANGED <<db_pool, checked_out>>
    /\ UNCHANGED <<classifyVars, synthVars, searchVars, initVars, healthVars, impl, procVars, model_loaded,
                   streamVars, kv, workerVars, httpVars>>

\* query_embedding = get_ollama_embedding(search_query) returns or raises
EmbedReturns(f, ok) ==
    /\ At(f, "embed")
    /\ flow' = [flow EXCEPT ![f].pc = IF ok THEN "getconn" ELSE "done",
                            ![f].raised = IF ok THEN None ELSE "embed"]
    /\ UNCHANGED <<db_pool, checked_out>>
    /\ UNCHANGED <<classifyVars, synthVars, searchVars, initVars, healthVars, impl, procVars, model_loaded,
                   streamVars, kv, workerVars, httpVars>>

\* get_db_connection().__enter__: if not db_pool: the lazy initialisation,
\* which raises when it fails; conn = db_pool.getconn()
GetDbConnection(f, ok) ==
    /\ At(f, "getconn")
    /\ IF db_pool \/ ok
       THEN /\ db_pool' = TRUE
            /\ checked_out' = checked_out + 1
            /\ flow' = [flow EXCEPT ![f].pc = "execute", ![f].conn = TRUE]
       ELSE /\ flow' = [flow EXCEPT ![f].pc = "done", ![f].raised = "pool"]
            /\ UNCHANGED <<db_pool, checked_out>>
    /\ UNCHANGED <<classifyVars, synthVars, searchVars, initVars, healthVars, impl, procVars, model_loaded,
                   streamVars, kv, workerVars, httpVars>>

\* the body of the with block: register_vector, cur.execute(SELECT ...),
\* cur.fetchall(); it ends normally or with an exception
Execute(f, ok, n) ==
    /\ At(f, "execute")
    /\ flow' = [flow EXCEPT ![f].pc = "putconn",
                            ![f].n = IF ok THEN n ELSE 0,
                            ![f].raised = IF ok THEN None ELSE "retrieve"]
    /\ UNCHANGED <<db_pool, checked_out>>
    /\ UNCHANGED <<classifyVars, synthVars, searchVars, initVars, healthVars, impl, procVars, model_loaded,
                   streamVars, kv, workerVars, httpVars>>

\* where the router goes on after the with block
AfterStore(fl) ==
    IF fl.raised # None THEN "done"
    ELSE IF fl.ty = "question" /\ fl.n > 0 THEN "generate"
    ELSE "done"

\* (variant: the connection is returned at the end of the with body, with
\* no finally: an exception in the body leaves it checked out)
PutConn_NoFinally(f) ==
    /\ At(f, "putconn")
    /\ checked_out' = IF flow[f].raised = None THEN checked_out - 1 ELSE checked_out
    /\ flow' = [flow EXCEPT ![f].pc = AfterStore(flow[f]),
                            ![f].conn = (flow[f].raised # None)]
    /\ UNCHANGED db_pool
    /\ UNCHANGED <<classifyVars, synthVars, searchVars, initVars, healthVars, impl, procVars, model_loaded,
                   streamVars, kv, workerVars, httpVars>>

\* get_db_connection().__exit__: finally: db_pool.putconn(conn), on the
\* normal and on the exception exit of the with body
PutConn(f) ==
    /\ At(f, "putconn")
    /\ checked_out' = checked_out - 1
    /\ flow' = [flow EXCEPT ![f].pc = AfterStore(flow[f]), ![f].conn = FALSE]
    /\ UNCHANGED db_pool
    /\ UNCHANGED <<classifyVars, synthVars, searchVars, initVars, healthVars, impl, procVars, model_loaded,
                   streamVars, kv, workerVars, httpVars>>

\* llama_result = get_llama_response(query, docs) returns or raises
GenerateReturns(f, ok) ==
    /\ At(f, "generate")
    /\ flow' = [flow EXCEPT ![f].pc = "done",
                            ![f].raised = IF ok THEN None ELSE "generate"]
    /\ UNCHANGED <<db_pool, checked_out>>
    /\ UNCHANGED <<classifyVars, synthVars, searchVars, initVars, healthVars, impl, procVars, model_loaded,
                   streamVars, kv, workerVars, httpVars>>

\* the router returns or its exception reaches the caller; the thread is
\* free for the next query
EndQuery(f) ==
    /\ At(f, "done")
    /\ flow' = [flow EXCEPT ![f] = NoFlow]
    /\ UNCHANGED <<db_pool, checked_out>>
    /\ UNCHANGED <<classifyVars, synthVars, searchVars, initVars, healthVars, impl, procVars, model_loaded,
                   streamVars, kv, workerVars, httpVars>>

(* ---------------- the initialisation of the connection pool ------------- *)
(* init_db_pool of main.py and Database.init_pool, which are the same      *)
(* loop, called at start-up and, by get_db_connection, at request time     *)
(* when the pool is not there.                                             *)

DEFAULT_MAX_RETRIES == 5
LAZY_MAX_RETRIES == 3
DEFAULT_BASE_DELAY == 1

\* what an attempt can come to: the pool is built and the schema verified;
\* the table is missing; psycopg2.OperationalError; any other exception
AttemptOutcomes == {"ok", "no_table", "operational_error", "other_error"}

\* a call of init_db_pool: its caller, its arguments, the attempt under
\* way, what the attempts so far came to, the delays slept, what it returned
NoInit == [pc |-> "off", caller |-> None, max_retries |-> 0, base_delay |-> 0,
           attempt |-> 0, outcomes |-> <<>>, slept |-> <<>>, returned |-> None]

\* (variant: the delay grows by base_delay with each attempt)
Delay_Linear(base_delay, attempt) == base_delay * attempt

\* delay = base_delay * (2 ** (attempt - 1))
Delay(base_delay, attempt) == base_delay * 2 ^ (attempt - 1)

\* init_db_pool(max_retries, base_delay) is called: at the start-up of the
\* process, or by get_db_connection when "not db_pool"
InitDbPool(caller, max_retries, base_delay) ==
    /\ init.pc = "off"
    /\ ~db_pool
    /\ request = "none"
    /\ init' = [NoInit EXCEPT !.pc = "attempt", !.caller = caller,
                              !.max_retries = max_retries,
                              !.base_delay = base_delay, !.attempt = 1]
    /\ UNCHANGED <<db_pool, checked_out, flow, request>>
    /\ UNCHANGED <<classifyVars, synthVars, searchVars, healthVars, impl, procVars, model_loaded,
                   streamVars, kv, workerVars, httpVars>>

\* One pass of the loop body: the pool is built and a connection is taken
\* and returned for the schema check.  assigned: the exception came after
\* "db_pool = SimpleConnectionPool(...)".
Attempt(outcome, assigned) ==
    /\ init.pc = "attempt"
    /\ db_pool' = (db_pool \/ outcome \in {"ok", "no_table"} \/ assigned)
    /\ init' =
         [init EXCEPT
            !.outcomes = Append(@, outcome),
            !.pc = IF outcome = "operational_error" /\ init.attempt < init.max_retries
                   THEN "sleep" ELSE "returned",
            !.returned = IF outcome = "ok" THEN "True"
                         ELSE IF outcome = "operational_error"
                                 /\ init.attempt < init.max_retries
                         THEN None ELSE "False"]
    /\ UNCHANGED <<checked_out, flow, request>>
    /\ UNCHANGED <<classifyVars, synthVars, searchVars, healthVars, impl, procVars, model_loaded,
                   streamVars, kv, workerVars, httpVars>>

\* time.sleep(delay), then the next attempt
Sleep ==
    /\ init.pc = "sleep"
    /\ init' = [init EXCEPT !.slept = Append(@, Delay(init.base_delay, init.attempt)),
                            !.attempt = @ + 1,
                            !.pc = "attempt"]
    /\ UNCHANGED <<db_pool, checked_out, flow, request>>
    /\ UNCHANGED <<classifyVars, synthVars, searchVars, healthVars, impl, procVars, model_loaded,
                   streamVars, kv, workerVars, httpVars>>

\* (variant: a failed lazy initialisation is passed over and the request
\* goes on without a connection)
AfterInit_Quiet(returned) == "none"

\* if not init_db_pool(max_retries=3): raise Exception("Database pool not
\* initialized (lazy init failed)"); conn = db_pool.getconn()
AfterInit(returned) == IF returned = "True" THEN "connection" ELSE "error"

\* the call of init_db_pool has returned to its caller
InitReturns ==
    /\ init.pc = "returned"
    /\ init' = [init EXCEPT !.pc = "off"]
    /\ request' = IF init.caller = "request" THEN AfterInit(init.returned)
                  ELSE request
    /\ UNCHANGED <<db_pool, checked_out, flow>>
    /\ UNCHANGED <<classifyVars, synthVars, searchVars, healthVars, impl, procVars, model_loaded,
                   streamVars, kv, workerVars, httpVars>>

\* a request enters get_db_connection while the pool is there
RequestConnection ==
    /\ init.pc = "off"
    /\ db_pool
    /\ request = "none"
    /\ request' = "connection"
    /\ UNCHANGED <<db_pool, checked_out, flow, init>>
    /\ UNCHANGED <<classifyVars, synthVars, searchVars, healthVars, impl, procVars, model_loaded,
                   streamVars, kv, workerVars, httpVars>>

(* ---------------- the health route and the models-ready flag ----------- *)
(* health() and check_ollama_health() in the request threads,              *)
(* background_health_check() and prewarm_models() in the background        *)
(* thread, all of process p1, writing the one flag.                        *)

HealthThreads == {"h1", "h2"}
Background == "bg"
Checkers == HealthThreads \cup {Background}

\* what GET /api/tags gives: both models listed, one missing, or the call
\* raises
TagsReplies == {"both", "missing", "down"}

\* a thread's place: its statement, the reply it got, db_ok, the status of
\* its response; steady: the service has listed both models and the pool
\* has been there ever since the request came in; alone: no check or
\* pre-warm begun before it was under way when it came in
NoCheck == [pc |-> "off", seen |-> None, db_ok |-> FALSE, code |-> 0,
            steady |-> FALSE, alone |-> FALSE]
Loaded == model_loaded["p1"]
SetLoaded(b) == model_loaded' = [model_loaded EXCEPT !["p1"] = b]

\* the module-level start-up: prewarm_models(), init_db_pool(),
\* start_background_health_check(); then requests are served
StartUp(warm, pool) ==
    /\ \A t \in Checkers : chk[t].pc = "off"
    /\ warm => tags = "both"
    /\ SetLoaded(warm)
    /\ db_pool' = pool
    /\ chk' = [t \in Checkers |->
                 [NoCheck EXCEPT !.pc = IF t = Background THEN "sleep" ELSE "idle"]]
    /\ UNCHANGED <<tags, checked_out, flow, initVars>>
    /\ UNCHANGED <<classifyVars, synthVars, searchVars, impl, procVars,
                   streamVars, kv, workerVars, httpVars>>

\* the model service changes what it reports
TagsChange(v) ==
    /\ v # tags
    /\ tags' = v
    /\ chk' = [t \in Checkers |-> [chk[t] EXCEPT !.steady = @ /\ v = "both"]]
    /\ UNCHANGED <<model_loaded, poolVars, initVars>>
    /\ UNCHANGED <<classifyVars, synthVars, searchVars, impl, procVars,
                   streamVars, kv, workerVars, httpVars>>

\* background_health_check of main.py: "if not model_loaded: prewarm_models()"
\* reads the flag again, and the except branch does not pre-warm;
\* rag_service.py: "if not self.check_ollama_health(): self.prewarm_models()"
NeedsPrewarm(variant, seen, loaded) ==
    IF variant = "main" THEN seen # "down" /\ ~loaded ELSE seen # "both"

\* a check or a pre-warm of thread t is under way with a reply that is not
\* "both models"
Stale(t) ==
    \/ chk[t].pc \in {"write", "recheck"} /\ chk[t].seen # "both"
    \/ chk[t].pc = "recheck" /\ NeedsPrewarm(impl, chk[t].seen, Loaded)
    \/ chk[t].pc = "prewarm"

\* GET /health comes in: db_ok = db_pool is not None, then
\* check_ollama_health() sends its request
HealthBegin(h) ==
    /\ chk[h].pc \in {"idle", "done"}
    /\ chk' = [chk EXCEPT ![h] =
                 [NoCheck EXCEPT !.pc = "get", !.db_ok = db_pool,
                                 !.steady = (tags = "both" /\ db_pool),
                                 !.alone = \A t \in Checkers \ {h} : ~Stale(t)]]
    /\ UNCHANGED <<tags, model_loaded, poolVars, initVars>>
    /\ UNCHANGED <<classifyVars, synthVars, searchVars, impl, procVars,
                   streamVars, kv, workerVars, httpVars>>

\* time.sleep(30) is over: the background loop sends its request
BackgroundWakes ==
    /\ chk[Background].pc = "sleep"
    /\ chk' = [chk EXCEPT ![Background].pc = "get"]
    /\ UNCHANGED <<tags, model_loaded, poolVars, initVars>>
    /\ UNCHANGED <<classifyVars, synthVars, searchVars, impl, procVars,
                   streamVars, kv, workerVars, httpVars>>

\* requests.get(f"{OLLAMA_URL}/api/tags") returns or raises
TagsReply(t) ==
    /\ chk[t].pc = "get"
    /\ chk' = [chk EXCEPT ![t].pc = "write", ![t].seen = tags]
    /\ UNCHANGED <<tags, model_loaded, poolVars, initVars>>
    /\ UNCHANGED <<classifyVars, synthVars, searchVars, impl, procVars,
                   streamVars, kv, workerVars, httpVars>>

\* model_loaded = embed_ok and llm_ok; in the except branch,
\* model_loaded = False
WriteFlag(t) ==
    /\ chk[t].pc = "write"
    /\ SetLoaded(chk[t].seen = "both")
    /\ chk' = [chk EXCEPT ![t].pc = IF t = Background THEN "recheck" ELSE "respond"]
    /\ UNCHANGED <<tags, poolVars, initVars>>
    /\ UNCHANGED <<classifyVars, synthVars, searchVars, impl, procVars,
                   streamVars, kv, workerVars, httpVars>>

\* the background loop decides on a pre-warm
BackgroundRechecks ==
    /\ chk[Background].pc = "recheck"
    /\ chk' = [chk EXCEPT ![Background].pc =
                 IF NeedsPrewarm(impl, chk[Background].seen, Loaded)
                 THEN "prewarm" ELSE "sleep"]
    /\ UNCHANGED <<tags, model_loaded, poolVars, initVars>>
    /\ UNCHANGED <<classifyVars, synthVars, searchVars, impl, procVars,
                   streamVars, kv, workerVars, httpVars>>

\* prewarm_models() comes to its end: model_loaded = True, or, in the
\* except branch, model_loaded = False (a model that is listed can still
\* fail to answer; one that is not listed cannot answer)
PrewarmReturns(ok) ==
    /\ chk[Background].pc = "prewarm"
    /\ ok => tags = "both"
    /\ SetLoaded(ok)
    /\ chk' = [chk EXCEPT ![Background].pc = "sleep"]
    /\ UNCHANGED <<tags, poolVars, initVars>>
    /\ UNCHANGED <<classifyVars, synthVars, searchVars, impl, procVars,
                   streamVars, kv, workerVars, httpVars>>

\* (variant: the status follows what this request's own check returned)
HealthStatus_OwnCheck(variant, loaded, ollama_ok, db_ok) ==
    IF variant = "main"
    THEN IF ~ollama_ok THEN 503 ELSE 200
    ELSE IF ollama_ok /\ db_ok THEN 200 ELSE 503

\* main.py: if not model_loaded: 503, else 200 (status "ok" or "degraded");
\* routes/api.py: 200 if svc.model_loaded and db_ok else 503
HealthStatus(variant, loaded, ollama_ok, db_ok) ==
    IF variant = "main"
    THEN IF ~loaded THEN 503 ELSE 200
    ELSE IF loaded /\ db_ok THEN 200 ELSE 503

\* the response of health() is built from the flag as it is now
Respond(h) ==
    /\ chk[h].pc = "respond"
    /\ chk' = [chk EXCEPT ![h].pc = "done",
                          ![h].code = HealthStatus(impl, Loaded,
                                                   chk[h].seen = "both",
                                                   chk[h].db_ok)]
    /\ UNCHANGED <<tags, model_loaded, poolVars, initVars>>
    /\ UNCHANGED <<classifyVars, synthVars, searchVars, impl, procVars,
                   streamVars, kv, workerVars, httpVars>>

Init ==
    /\ impl \in Impls
    /\ launch = [p \in Procs |-> "down"]
    /\ mainRan = [p \in Procs |-> FALSE]
    /\ model_loaded = [p \in Procs |-> FALSE]
    /\ stream = <<>>
    /\ lastDelivered = 0
    /\ pending = <<>>
    /\ acked = {}
    /\ kv = {}
    /\ alive = [t \in Threads |-> FALSE]
    /\ pc = [t \in Threads |-> "off"]
    /\ cur = [t \in Threads |-> 0]
    /\ routed = [t \in Threads |-> NoRun]
    /\ result = [t \in Threads |-> NoResult]
    /\ done = <<>>
    /\ hproc = None
    /\ hrouted = NoRun
    /\ hresp = NoResponse
    /\ query = NoQuery
    /\ reply = NoReply
    /\ heuristic_result = NoIntent
    /\ intent = NoIntent
    /\ documents = <<>>
    /\ raw_response = <<>>
    /\ llama_result = NoParse
    /\ file_embeddings = <<>>
    /\ search_limit = 0
    /\ files = NoFiles
    /\ db_pool = FALSE
    /\ checked_out = 0
    /\ flow = [f \in Flows |-> NoFlow]
    /\ init = NoInit
    /\ request = "none"
    /\ tags = "missing"
    /\ chk = [t \in Checkers |-> NoCheck]

(* ---------------- process start-up and failure ---------------- *)

\* start_redis_worker(): init_redis(), ensure_consumer_group(), then one
\* more thread runs worker_loop.  (A process whose init_redis() fails runs
\* no worker loop and takes no part in the pipeline: for the pipeline it is
\* a process that is down.)
StartRedisWorker(t) ==
    /\ alive' = [alive EXCEPT ![t] = TRUE]
    /\ pc' = [pc EXCEPT ![t] = "xreadgroup"]

\* The module is loaded: the module-level start-up code runs (main.py
\* 1257-1268), whether the module is imported by a WSGI server or run as a
\* script.  prewarm_models() sets the models-ready flag.
Launch(p, how, warm) ==
    /\ launch[p] = "down"
    /\ impl = "rag" => how = "wsgi"
    /\ launch' = [launch EXCEPT ![p] = how]
    /\ model_loaded' = [model_loaded EXCEPT ![p] = warm]
    /\ StartRedisWorker(<<p, 1>>)
    /\ UNCHANGED <<classifyVars, unitVars, impl, mainRan, streamVars, kv, cur, routed, result, done,
                   httpVars>>

\* if __name__ == "__main__": main()  -- runs after the module-level code
RunMain(p, warm) ==
    /\ launch[p] = "script"
    /\ ~mainRan[p]
    /\ mainRan' = [mainRan EXCEPT ![p] = TRUE]
    /\ model_loaded' = [model_loaded EXCEPT ![p] = warm]
    /\ StartRedisWorker(<<p, 2>>)
    /\ UNCHANGED <<classifyVars, unitVars, impl, launch, streamVars, kv, cur, routed, result, done,
                   httpVars>>

\* The process dies at any point; nothing it held locally survives, the
\* stream, its pending list and the status store do.
Crash(p) ==
    /\ launch[p] # "down"
    /\ launch' = [launch EXCEPT ![p] = "down"]
    /\ mainRan' = [mainRan EXCEPT ![p] = FALSE]
    /\ model_loaded' = [model_loaded EXCEPT ![p] = FALSE]
    /\ alive' = [t \in Threads |-> IF t[1] = p THEN FALSE ELSE alive[t]]
    /\ pc' = [t \in Threads |-> IF t[1] = p THEN "off" ELSE pc[t]]
    /\ cur' = [t \in Threads |-> IF t[1] = p THEN 0 ELSE cur[t]]
    /\ routed' = [t \in Threads |-> IF t[1] = p THEN NoRun ELSE routed[t]]
    /\ result' = [t \in Threads |-> IF t[1] = p THEN NoResult ELSE result[t]]
    /\ UNCHANGED <<classifyVars, unitVars, impl, streamVars, kv, done, httpVars>>

\* check_ollama_health / background_health_check: the flag follows what the
\* model service reports
HealthCheck(p, b) ==
    /\ launch[p] # "down"
    /\ model_loaded[p] # b
    /\ model_loaded' = [model_loaded EXCEPT ![p] = b]
    /\ UNCHANGED <<classifyVars, unitVars, impl, procVars, streamVars, kv, workerVars, httpVars>>

(* ---------------- the stream and the status store ---------------- *)

\* enqueue(stream, fields): done by the API server
Enqueue(j, q) ==
    /\ Len(stream) < MaxEntries
    /\ stream' = Append(stream, [job_id |-> j, query |-> q])
    /\ done' = Append(done, {})
    /\ UNCHANGED <<classifyVars, unitVars, impl, procVars, model_loaded, lastDelivered, pending, acked,
                   kv, alive, pc, cur, routed, result, httpVars>>

\* the retention of a status record elapses
Expire(key) ==
    /\ HasKey(kv, key)
    /\ kv' = {r \in kv : r.key # key}
    /\ UNCHANGED <<classifyVars, unitVars, impl, procVars, model_loaded, streamVars, workerVars, httpVars>>

(* ---------------- worker_loop ---------------- *)

Note(e, what) == done' = [done EXCEPT ![e] = @ \cup {what}]

\* (variant: the exception ends the loop)
Raise_Stop(t) ==
    /\ pc' = [pc EXCEPT ![t] = "off"]
    /\ cur' = [cur EXCEPT ![t] = 0]
    /\ routed' = [routed EXCEPT ![t] = NoRun]
    /\ result' = [result EXCEPT ![t] = NoResult]

\* except Exception: logger.error(...); time.sleep(1) -- and the loop goes
\* round: the locals of the iteration are dead, the entry in hand is left
\* as it is in the stream's pending list
Raise(t) ==
    /\ pc' = [pc EXCEPT ![t] = "xreadgroup"]
    /\ cur' = [cur EXCEPT ![t] = 0]
    /\ routed' = [routed EXCEPT ![t] = NoRun]
    /\ result' = [result EXCEPT ![t] = NoResult]

\* (variant: pending entries that no running loop has in hand are handed
\* out again, as a read of the pending list would)
NextEntry_Redeliver ==
    IF \E e \in DOMAIN pending : \A t \in Threads : cur[t] # e
    THEN CHOOSE e \in DOMAIN pending : \A t \in Threads : cur[t] # e
    ELSE IF lastDelivered < Len(stream) THEN lastDelivered + 1 ELSE 0

\* The entry XREADGROUP hands out for the id ">": the first one never
\* delivered to any consumer of the group (0: none, the call returns empty
\* after its block time and the loop goes round)
NextEntry == IF lastDelivered < Len(stream) THEN lastDelivered + 1 ELSE 0

\* (variant: the router is called before the processing record is written)
AfterRead_RouteFirst(e) == IF JobOf(e) = NoJobId THEN "xack_skip" ELSE "route"

\* (variant: every entry is acknowledged and dropped)
AfterRead_SkipAll(e) == "xack_skip"

\* (variant: an entry without a job_id is processed like any other)
AfterRead_ProcessAll(e) == "setex_processing"

\* job_id = data.get("job_id"); if not job_id: ... xack; continue
AfterRead(e) == IF JobOf(e) = NoJobId THEN "xack_skip" ELSE "setex_processing"

\* redis_client.xreadgroup(CONSUMER_GROUP, consumer_name, {JOB_STREAM: ">"},
\*                         count=1, block=5000)
XReadGroup(t, ok) ==
    /\ alive[t] /\ pc[t] = "xreadgroup"
    /\ IF ~ok
       THEN /\ Raise(t)
            /\ UNCHANGED <<streamVars, done>>
       ELSE /\ NextEntry # 0
            /\ LET e == NextEntry IN
               /\ lastDelivered' = IF e > lastDelivered THEN e ELSE lastDelivered
               /\ pending' = [x \in DOMAIN pending \cup {e} |-> ConsumerNameOr(x, e, t)]
               /\ cur' = [cur EXCEPT ![t] = e]
               /\ pc' = [pc EXCEPT ![t] = AfterRead(e)]
            /\ UNCHANGED <<stream, acked, routed, result, done>>
    /\ UNCHANGED <<classifyVars, unitVars, impl, procVars, model_loaded, kv, alive, httpVars>>

\* redis_client.xack(JOB_STREAM, CONSUMER_GROUP, entry_id)
XAckEntry(t, ok) ==
    IF ok
    THEN /\ pending' = [e \in DOMAIN pending \ {cur[t]} |-> pending[e]]
         /\ acked' = acked \cup {cur[t]}
         /\ pc' = [pc EXCEPT ![t] = "xreadgroup"]
         /\ cur' = [cur EXCEPT ![t] = 0]
         /\ UNCHANGED <<routed, result>>
    ELSE /\ Raise(t)
         /\ UNCHANGED <<pending, acked>>

\* if not job_id: xack; continue
XAckSkip(t, ok) ==
    /\ alive[t] /\ pc[t] = "xack_skip"
    /\ XAckEntry(t, ok)
    /\ UNCHANGED <<classifyVars, unitVars, impl, procVars, model_loaded, stream, lastDelivered, kv,
                   alive, done, httpVars>>

\* redis_client.setex(f"{RESULT_KEY_PREFIX}{job_id}", 3600, processing)
SetexProcessing(t, ok) ==
    /\ alive[t] /\ pc[t] = "setex_processing"
    /\ IF ok
       THEN /\ kv' = SetEx(kv, Key(JobOf(cur[t])), RESULT_TTL,
                           ProcessingRecord(impl, JobOf(cur[t]), QueryOf(cur[t])))
            /\ Note(cur[t], "setex_processing")
            /\ pc' = [pc EXCEPT ![t] = "route"]
            /\ UNCHANGED <<cur, routed, result>>
       ELSE /\ Raise(t)
            /\ UNCHANGED <<kv, done>>
    /\ UNCHANGED <<classifyVars, unitVars, impl, procVars, model_loaded, streamVars, alive, httpVars>>

\* (variant: the router writes the job's record itself)
Route_Recording(t) ==
    /\ alive[t] /\ pc[t] = "route"
    /\ \E run \in RouterRuns(model_loaded[t[1]]) :
       /\ routed' = [routed EXCEPT ![t] = run]
       /\ result' = [result EXCEPT ![t] = JobResult(impl, JobOf(cur[t]), run.out)]
       /\ kv' = SetEx(kv, Key(JobOf(cur[t])), RESULT_TTL,
                      JobResult(impl, JobOf(cur[t]), run.out))
    /\ pc' = [pc EXCEPT ![t] = "setex_result"]
    /\ UNCHANGED <<classifyVars, unitVars, impl, procVars, model_loaded, streamVars,
                   alive, cur, done, httpVars>>

\* result = process_job_internal(query) / self.unified_query(query), and the
\* worker's lines that complete the result dict
Route(t) ==
    /\ alive[t] /\ pc[t] = "route"
    /\ \E run \in RouterRuns(model_loaded[t[1]]) :
       /\ routed' = [routed EXCEPT ![t] = run]
       /\ result' = [result EXCEPT ![t] = JobResult(impl, JobOf(cur[t]), run.out)]
    /\ pc' = [pc EXCEPT ![t] = "setex_result"]
    /\ UNCHANGED <<classifyVars, unitVars, impl, procVars, model_loaded, streamVars, kv, alive, cur,
                   done, httpVars>>

\* (variant: the exception of the setex is swallowed and the loop body goes on)
SetexResultRaised_Swallowed(t) ==
    /\ pc' = [pc EXCEPT ![t] = "xack"]
    /\ UNCHANGED <<cur, routed, result>>

\* the setex of the result raises: nothing below it in the loop body runs
SetexResultRaised(t) == Raise(t)

\* redis_client.setex(f"{RESULT_KEY_PREFIX}{job_id}", 3600, json.dumps(result))
\* (after it the result dict is only logged)
SetexResult(t, ok) ==
    /\ alive[t] /\ pc[t] = "setex_result"
    /\ IF ok
       THEN /\ kv' = SetEx(kv, Key(JobOf(cur[t])), RESULT_TTL, result[t])
            /\ Note(cur[t], "setex_result")
            /\ pc' = [pc EXCEPT ![t] = "xack"]
            /\ routed' = [routed EXCEPT ![t] = NoRun]
            /\ result' = [result EXCEPT ![t] = NoResult]
            /\ UNCHANGED cur
       ELSE /\ SetexResultRaised(t)
            /\ UNCHANGED <<kv, done>>
    /\ UNCHANGED <<classifyVars, unitVars, impl, procVars, model_loaded, streamVars, alive, httpVars>>

\* redis_client.xack(JOB_STREAM, CONSUMER_GROUP, entry_id)
XAck(t, ok) ==
    /\ alive[t] /\ pc[t] = "xack"
    /\ XAckEntry(t, ok)
    /\ UNCHANGED <<classifyVars, unitVars, impl, procVars, model_loaded, stream, lastDelivered, kv,
                   alive, done, httpVars>>

(* ---------------- the synchronous query route ---------------- *)
(* unified_query of main.py (route /unified_query) and of routes/api.py    *)
(* (route /query, which calls RAGService.unified_query).                   *)

\* if not model_loaded: 503; if not query: 400; try: the router;
\* except Exception: 500
HttpQuery(p, q) ==
    /\ launch[p] # "down"
    /\ hproc' = p
    /\ IF model_loaded[p] /\ q = ""
       THEN /\ hrouted' = NoRun
            /\ hresp' = ErrorResponse(400, IF impl = "main"
                                            THEN "Missing 'query' field"
                                            ELSE "Missing query")
       ELSE \E run \in RouterRuns(model_loaded[p]) :
            /\ hrouted' = run
            /\ hresp' = IF run.raised = "model_loaded"
                        THEN ErrorResponse(503, run.out.error)
                        ELSE IF run.raised # None
                             THEN ErrorResponse(500, run.out.error)
                             ELSE OkResponse(run.out.body)
    /\ UNCHANGED <<classifyVars, unitVars, impl, procVars, model_loaded, streamVars, kv, workerVars>>

(* ---------------- specifications ---------------- *)

\* One step of the worker loop of thread t; ok: the Redis call of the step
\* succeeds
WorkerStep(t, ok) ==
    \/ XReadGroup(t, ok)
    \/ XAckSkip(t, ok)
    \/ SetexProcessing(t, ok)
    \/ Route(t)
    \/ SetexResult(t, ok)
    \/ XAck(t, ok)

\* The environment of the pipeline: jobs are submitted, records expire, the
\* model service comes and goes
Environment ==
    \/ \E j \in JobIds \cup {NoJobId}, q \in Queries : Enqueue(j, q)
    \/ \E j \in JobIds : Expire(Key(j))
    \/ \E p \in Procs, b \in BOOLEAN : HealthCheck(p, b)

\* The job pipeline: processes start either way and crash at any point,
\* every Redis call may raise.
Next ==
    \/ \E p \in Procs, how \in {"wsgi", "script"}, warm \in BOOLEAN :
          Launch(p, how, warm)
    \/ \E p \in Procs, warm \in BOOLEAN : RunMain(p, warm)
    \/ \E p \in Procs : Crash(p)
    \/ Environment
    \/ \E t \in Threads, ok \in BOOLEAN : WorkerStep(t, ok)

Spec == Init /\ [][Next]_vars


\* The pipeline with no fault: no process crashes and every Redis call
\* succeeds; every running worker loop keeps taking steps.
NextNoFault ==
    \/ \E p \in Procs, how \in {"wsgi", "script"}, warm \in BOOLEAN :
          Launch(p, how, warm)
    \/ \E p \in Procs, warm \in BOOLEAN : RunMain(p, warm)
    \/ \E j \in JobIds \cup {NoJobId}, q \in Queries : Enqueue(j, q)
    \/ \E t \in Threads : WorkerStep(t, TRUE)

LiveSpec ==
    /\ Init
    /\ [][NextNoFault]_vars
    /\ \A t \in Threads : WF_vars(WorkerStep(t, TRUE))

\* One process, imported by a WSGI server, that crashes while its worker
\* loop has an entry in hand and is restarted; every Redis call succeeds.
\* A crashed process is restarted, and a running worker loop keeps taking
\* steps.
NextCrash ==
    \/ \E warm \in BOOLEAN : Launch("p1", "wsgi", warm)
    \/ cur[<<"p1", 1>>] # 0 /\ Crash("p1")
    \/ \E j \in JobIds \cup {NoJobId}, q \in Queries : Enqueue(j, q)
    \/ WorkerStep(<<"p1", 1>>, TRUE)

CrashSpec ==
    /\ Init
    /\ [][NextCrash]_vars
    /\ WF_vars(\E warm \in BOOLEAN : Launch("p1", "wsgi", warm))
    /\ WF_vars(WorkerStep(<<"p1", 1>>, TRUE))

\* One process serving synchronous queries while its worker loop runs;
\* every call may raise.  A first file is indexed at some point.
NextSync ==
    \/ \E warm \in BOOLEAN : Launch("p1", "wsgi", warm)
    \/ Environment
    \/ file_embeddings = <<>> /\ SaveEmbedding(NextFileId, 1, "/mnt/data/x", 1)
    \/ \E ok \in BOOLEAN : WorkerStep(<<"p1", 1>>, ok)
    \/ \E q \in Queries \cup {""} : HttpQuery("p1", q)

SyncSpec == Init /\ [][NextSync]_vars

\* The classifier alone: one call, over the query texts and what the model
\* service may answer.
NextClassify ==
    /\ query = NoQuery
    /\ \E q \in QueryTexts, rep \in Replies : ClassifyIntent(q, rep)

ClassifySpec == Init /\ [][NextClassify]_vars

\* The synthesizer's parser alone: one call of get_llama_response whose
\* generation call came back, over the replies and the candidate lists
NextSynth ==
    /\ llama_result = NoParse
    /\ \E raw \in RawTexts, docs \in CandidateLists : GetLlamaResponse(raw, docs)

SynthSpec == Init /\ [][NextSynth]_vars

\* Retrieval alone: files are indexed, then one query in search mode.  The
\* file ids are taken in turn (their names do not matter), and a new file
\* ranks first or last for the query.
NextSearch ==
    /\ files = NoFiles
    /\ \/ /\ Len(file_embeddings) < MaxRows
          /\ \E n \in ContentLengths, path \in FilePaths,
                pos \in {1, Len(file_embeddings) + 1} :
                 SaveEmbedding(NextFileId, n, path, pos)
       \/ \E limit \in Limits : SearchMode(limit)

SearchSpec == Init /\ [][NextSearch]_vars

\* The router in two threads at once, every call of it returning or raising
NextPool ==
    \E f \in Flows :
        \/ \E ty \in IntentTypes : BeginQuery(f, ty)
        \/ \E ok \in BOOLEAN : EmbedReturns(f, ok)
        \/ \E ok \in BOOLEAN : GetDbConnection(f, ok)
        \/ \E ok \in BOOLEAN, n \in 0..MaxDocs : Execute(f, ok, n)
        \/ PutConn(f)
        \/ \E ok \in BOOLEAN : GenerateReturns(f, ok)
        \/ EndQuery(f)

PoolSpec == Init /\ [][NextPool]_vars

\* The pool's initialisation: at start-up with the default arguments, or
\* by a request that finds no pool
NextInit ==
    \/ InitDbPool("startup", DEFAULT_MAX_RETRIES, DEFAULT_BASE_DELAY)
    \/ InitDbPool("request", LAZY_MAX_RETRIES, DEFAULT_BASE_DELAY)
    \/ \E outcome \in AttemptOutcomes, assigned \in BOOLEAN :
          Attempt(outcome, assigned)
    \/ Sleep
    \/ InitReturns
    \/ RequestConnection

InitSpec == Init /\ [][NextInit]_vars

\* The health route under concurrent requests, beside the background loop,
\* while the model service comes and goes
NextHealth ==
    \/ \E warm, pool \in BOOLEAN : StartUp(warm, pool)
    \/ \E v \in TagsReplies : TagsChange(v)
    \/ \E h \in HealthThreads : HealthBegin(h)
    \/ BackgroundWakes
    \/ \E t \in Checkers : TagsReply(t)
    \/ \E t \in Checkers : WriteFlag(t)
    \/ BackgroundRechecks
    \/ \E ok \in BOOLEAN : PrewarmReturns(ok)
    \/ \E h \in HealthThreads : Respond(h)

HealthSpec == Init /\ [][NextHealth]_vars


(* ---------------- properties ---------------- *)

Entries == 1..Len(stream)
HasJob(e) == JobOf(e) # NoJobId
EntriesOf(j) == {e \in Entries : JobOf(e) = j}
RecordOf(store, j) == IF HasKey(store, Key(j)) THEN Get(store, Key(j)) ELSE NoResult
Terminal == {"completed", "failed"}
InHand(e) == \E t \in Threads : cur[t] = e

\* C1: an entry whose worker crashed after the processing record was
\* written and before the acknowledgment is processed again, and the job's
\* record becomes completed or failed.
CrashedInProcessing(e) ==
    /\ e \in Entries
    /\ e \in DOMAIN pending
    /\ ~InHand(e)
    /\ "setex_processing" \in done[e]
C1_CrashedJobIsCompleted ==
    \A e \in 1..MaxEntries :
        CrashedInProcessing(e)
            ~> (e \in Entries /\ RecordOf(kv, JobOf(e)).status \in Terminal)

\* C2: a job's record, once written, only goes from processing to completed
\* or failed; a completed or failed record is never changed by a write,
\* only removed by expiry.  (A record is written anew where there is none:
\* at the start, and after an expiry.)
ForwardOnly(a, b) ==
    \/ b = a
    \/ b = NoResult
    \/ a = NoResult
    \/ a.status = "processing" /\ b.status \in Terminal
C2_TerminalIsFinal ==
    [][\A j \in JobIds : ForwardOnly(RecordOf(kv, j), RecordOf(kv', j))]_vars

\* C2 (amended): the same, for every job_id that at most one stream entry
\* carries.
C2_TerminalIsFinalForSingleEntry ==
    [][\A j \in JobIds :
          Cardinality(EntriesOf(j)) <= 1
              => ForwardOnly(RecordOf(kv, j), RecordOf(kv', j))]_vars
C2_Witness ==
    \E j \in JobIds :
        /\ Cardinality(EntriesOf(j)) = 1
        /\ EntriesOf(j) \subseteq acked
        /\ RecordOf(kv, j).status \in Terminal

\* C3: the store holds at most one record per job_id, and once the two
\* entries that carry one job_id are both acknowledged the record is
\* completed or failed, not processing.
C3_OneRecordLastWriteWins ==
    \A j \in JobIds :
        /\ Cardinality({r \in kv : r.key = Key(j)}) <= 1
        /\ (Cardinality(EntriesOf(j)) >= 2 /\ EntriesOf(j) \subseteq acked)
               => RecordOf(kv, j).status # "processing"
C3_Witness ==
    \E j \in JobIds :
        /\ Cardinality(EntriesOf(j)) >= 2
        /\ EntriesOf(j) \subseteq acked
        /\ RecordOf(kv, j).status \in Terminal

\* C4: an entry that carries a job_id is acknowledged only after the write
\* of the job's completed or failed record has succeeded for it.
C4_AckAfterResultStored ==
    \A e \in acked : HasJob(e) => "setex_result" \in done[e]
C4_Witness == \E e \in acked : HasJob(e)

\* C5: when the router is called for an entry, the processing record has
\* been written for it.
C5_ProcessingBeforeRouter ==
    [][\A t \in Threads :
          (routed[t] = NoRun /\ routed'[t] # NoRun)
              => /\ cur[t] \in Entries
                 /\ "setex_processing" \in done[cur[t]]
                 /\ "setex_result" \notin done[cur[t]]]_vars
C5_Witness ==
    \E t \in Threads :
        /\ routed[t].calls # <<>>
        /\ "setex_processing" \in done[cur[t]]

\* C6: the record stored after the router ran is completed, with the routed
\* response, the job_id and a completion time, exactly when the router
\* returned; it is failed, with the job_id and the error text, exactly when
\* the router failed.
StoredBy(t) == RecordOf(kv', JobOf(cur[t]))
C6_ResultMatchesRouter ==
    [][\A t \in Threads :
          (pc[t] = "setex_result" /\ pc'[t] = "xack")
              => /\ StoredBy(t).job_id = JobOf(cur[t])
                 /\ StoredBy(t).status \in Terminal
                 /\ (StoredBy(t).status = "completed") <=> (routed[t].raised = None)
                 /\ routed[t].raised = None
                        => /\ StoredBy(t).body = routed[t].out.body
                           /\ StoredBy(t).body # NoBody
                           /\ StoredBy(t).completed_at # None
                 /\ routed[t].raised # None
                        => /\ StoredBy(t).error = routed[t].out.error
                           /\ StoredBy(t).error # None
                           /\ StoredBy(t).body = NoBody]_vars
C6_Witness ==
    \E t \in Threads :
        /\ pc[t] = "xack"
        /\ RecordOf(kv, JobOf(cur[t])).status = "completed"
        /\ RecordOf(kv, JobOf(cur[t])).body.mode = "search"

\* C7: when the embedding, the retrieval or the generation call raises, the
\* synchronous caller gets an error response and the job's record is failed
\* with the error text; no response body is returned or stored.
StoreOrNetwork == {"embed", "retrieve", "generate"}
C7_FailuresReachTheCaller ==
    /\ [](hrouted.raised \in StoreOrNetwork
              => /\ hresp.code = 500
                 /\ hresp.error = hrouted.out.error
                 /\ hresp.error # None
                 /\ hresp.body = NoBody)
    /\ [][\A t \in Threads :
             (pc[t] = "setex_result" /\ pc'[t] = "xack"
                  /\ routed[t].raised \in StoreOrNetwork)
                 => /\ StoredBy(t).status = "failed"
                    /\ StoredBy(t).error = routed[t].out.error
                    /\ StoredBy(t).error # None
                    /\ StoredBy(t).body = NoBody]_vars
C7_Witness ==
    /\ hrouted.raised = "retrieve"
    /\ hresp.code = 500
    /\ \E j \in JobIds : RecordOf(kv, j).error = "generation failed"

\* C8: the running worker loops have pairwise distinct consumer names, and
\* no process runs two of them.
C8_OneLoopPerProcess ==
    \A t1, t2 \in Threads :
        (alive[t1] /\ alive[t2] /\ t1 # t2)
            => (ConsumerName(t1) # ConsumerName(t2) /\ t1[1] # t2[1])

\* C9: a consumer has one entry in hand at a time: its router calls do not
\* overlap.
Processing(t) == cur[t] # 0 /\ HasJob(cur[t])
C9_OneEntryInHandPerConsumer ==
    \A t1, t2 \in Threads :
        (t1 # t2 /\ Processing(t1) /\ Processing(t2))
            => ConsumerName(t1) # ConsumerName(t2)

\* C10: with no crash and no failing Redis call, every entry that carries a
\* job_id is in the hands of one loop at most, is delivered once (the
\* consumer it is pending for never changes, and an acknowledged entry is
\* not pending again), and while a worker loop runs it is eventually
\* acknowledged with the job's completed or failed record stored for it.
C10_EveryJobIsCompleted ==
    /\ [](\A t1, t2 \in Threads : (cur[t1] # 0 /\ t1 # t2) => cur[t1] # cur[t2])
    /\ [][/\ \A e \in DOMAIN pending \cap DOMAIN pending' : pending'[e] = pending[e]
          /\ \A e \in acked : e \in acked' /\ e \notin DOMAIN pending']_vars
    /\ \A e \in 1..MaxEntries :
          (e \in Entries /\ HasJob(e) /\ \E t \in Threads : alive[t])
              ~> (e \in acked /\ "setex_result" \in done[e])
C10_Witness ==
    /\ Len(stream) = 2
    /\ HasJob(1) /\ 1 \notin acked
    /\ HasJob(2) /\ 2 \in acked /\ "setex_result" \in done[2]

\* C11: every record in the status store was written with a retention of
\* 3600 seconds, whatever its status: no record is stored without an expiry
\* or with another one.
C11_EveryRecordExpiresInAnHour ==
    \A r \in kv : r.ttl = 3600 /\ r.val.status \in Terminal \cup {"processing"}
C11_Witness ==
    /\ \E r \in kv : r.val.status = "failed" /\ r.ttl = 3600
    /\ \E e \in Entries : HasJob(e) /\ done[e] = {"setex_processing", "setex_result"}

\* a classify_intent call has returned for a text that is not blank
Classified == query # NoQuery /\ ~IsBlank(query)
\* the model service was called and answered with a raw text
ModelAnswered == reply.called /\ reply.raised = None

\* C12: for a query that starts with a bulk quantifier the returned intent
\* has count_hint many and limit 50, whatever else the query holds and
\* whatever the model service answers; "alle Rechnungen 2023" gives
\* count_hint many, filters.year 2023, limit 50 and type search.
AlleRechnungen2023 ==
    [head |-> "alle", comma |-> FALSE, second |-> "rechnungen", fill |-> 0,
     year |-> "2023", file |-> None, tail |-> ""]
C12_BulkQueriesGetFifty ==
    /\ (Classified /\ query.head \in BulkWords)
           => (intent.count_hint = "many" /\ intent.limit = 50)
    /\ query = AlleRechnungen2023
           => /\ intent.count_hint = "many" /\ intent.limit = 50
              /\ intent.filters.year = 2023 /\ intent.type = "search"

\* C13: when the model answers with an object, a field of it that is
\* missing or fails its check leaves the value the heuristic pass computed
\* for that field in the returned intent, and a field that passes is taken.
C13_InvalidFieldsKeepHeuristic ==
    \A t \in ReplyTypes \cup {"bogus", None},
       c \in ReplyHints \cup {"bogus", None},
       r \in {"refined", "", None} :
        (ModelAnswered /\ reply.raw = FlatObject(t, c, r))
            => /\ intent.type = IF t \in ReplyTypes THEN t ELSE heuristic_result.type
               /\ intent.count_hint =
                      IF c \in ReplyHints THEN c ELSE heuristic_result.count_hint
               /\ intent.refined_query =
                      IF r = "refined" THEN r ELSE heuristic_result.refined_query
               /\ intent.filters = heuristic_result.filters

\* C14: when the raw reply holds an object in the requested shape, with or
\* without text around it, the returned intent carries its type, count_hint,
\* refined_query and filters, with confidence 0.9.
JsonValue(v) == IF v = "null" THEN None ELSE v
C14_RequestedObjectIsTaken ==
    \A pre \in {<<>>, <<Text>>}, t \in ReplyTypes, c \in ReplyHints,
       y \in {"2023", "null"}, f \in {"pdf", "null"} :
        (ModelAnswered
            /\ reply.raw = pre \o RequestedObject(t, c, "refined", y, f) \o pre)
            => /\ intent.type = t
               /\ intent.count_hint = c
               /\ intent.refined_query = "refined"
               /\ intent.filters = [year |-> IntOf(y), file_type |-> JsonValue(f)]
               /\ intent.confidence = 90

\* C15: a year token from 2000 to 2099 in the query is the intent's
\* filters.year, and a recognized file extension in it is the intent's
\* filters.file_type, on every path.
RecognizedExts == {"pdf", "txt", "doc", "docx", "xls", "xlsx", "csv", "json", "md"}
C15_YearAndFileTypeAreExtracted ==
    Classified
        => /\ (query.year # None /\ IntOf(query.year) \in 2000..2099)
                  => intent.filters.year = IntOf(query.year)
           /\ query.file \in RecognizedExts
                  => intent.filters.file_type = query.file

\* C16: when the call of the model service raises (a timeout, an error) or
\* its reply cannot be parsed, the returned intent is the one the heuristic
\* pass computed.
Unparseable == {<<>>, <<Text>>, <<Open, Text, Close>>}
C16_ModelFailureGivesHeuristic ==
    (Classified /\ reply.called
        /\ (reply.raised # None \/ reply.raw \in Unparseable))
        => intent = heuristic_result

\* C17: for a query that is not blank the model service is called exactly
\* when the heuristic confidence is below 0.9; otherwise the heuristic
\* intent is returned as it is, so a query the heuristic pass took for a
\* question is never classified by the model.
C17_ModelCalledOnlyBelowThreshold ==
    Classified
        => /\ reply.called <=> heuristic_result.confidence < 90
           /\ heuristic_result.confidence >= 90 => intent = heuristic_result
           /\ heuristic_result.type = "question"
                  => (~reply.called /\ intent.type = "question")
C17_Witness ==
    /\ Classified
    /\ heuristic_result.confidence = 91
    /\ ~reply.called
    /\ intent = heuristic_result

\* C18: a query whose last non-blank character is "?" is classified as a
\* question with confidence 0.98 or more, without a call of the model.
C18_QuestionMarkMeansQuestion ==
    (query # NoQuery /\ query.tail \in {"?", "? "})
        => /\ intent.type = "question"
           /\ intent.confidence >= 98
           /\ ~reply.called
C18_Witness ==
    /\ query.tail = "? "
    /\ query.head \in BulkWords
    /\ query.file = "pdf"
    /\ intent.type = "question"

\* C19: every returned intent has the limit the table gives for its
\* count_hint: exact_match 3, few 10, many 50.
C19_LimitFollowsCountHint ==
    query # NoQuery
        => /\ intent.limit \in {3, 10, 50}
           /\ intent.count_hint \in {"exact_match", "few", "many"}
           /\ intent.count_hint = "exact_match" => intent.limit = 3
           /\ intent.count_hint = "few" => intent.limit = 10
           /\ intent.count_hint = "many" => intent.limit = 50
C19_Witness ==
    /\ ModelAnswered
    /\ heuristic_result.count_hint = "many"
    /\ intent.count_hint = "exact_match"
    /\ intent.limit = 3

\* C20: a question for which the retrieval returns no candidate is answered
\* with the canned no-documents text, confidence NIEDRIG and no source, and
\* no generation call is made for it, for the synchronous caller and for a
\* job.
NoCandidates(in) == in.ty = "question" /\ in.embedOk /\ in.storeOk /\ in.n = 0
CannedRun(run) ==
    /\ run.calls = <<"classify", "embed", "retrieve">>
    /\ run.raised = None
    /\ run.out.status = "completed"
    /\ run.out.body = [mode |-> "answer",
                       answer |-> "Keine relevanten Dokumente gefunden.",
                       confidence |-> "NIEDRIG", ndocs |-> 0]
AnswerWithoutCandidates(run) ==
    run.out.body.mode = "answer" /\ run.out.body.ndocs = 0
C20_NoDocumentsNoGeneration ==
    /\ \A in \in RouterInputs : NoCandidates(in) => CannedRun(RouteQuery(TRUE, in))
    /\ AnswerWithoutCandidates(hrouted)
           => (CannedRun(hrouted) /\ hresp = OkResponse(hrouted.out.body))
    /\ \A t \in Threads :
           AnswerWithoutCandidates(routed[t])
               => (CannedRun(routed[t]) /\ result[t].body = routed[t].out.body)
C20_Witness ==
    /\ CannedRun(hrouted)
    /\ hresp.code = 200
    /\ \E j \in JobIds :
           RecordOf(kv, j).body.answer = "Keine relevanten Dokumente gefunden."

\* C28: an exception in the worker loop does not end the loop: after a
\* stream read, a status write or an acknowledgment raised the loop is back
\* at the read, the entry it had in hand is still pending (not
\* acknowledged), and the step changed no status record.
GaveUp(t) == cur[t] # 0 /\ cur'[t] = 0 /\ cur[t] \notin acked'
C28_LoopSurvivesExceptions ==
    [][\A t \in Threads :
          /\ (alive[t] /\ alive'[t] /\ GaveUp(t))
                 => /\ pc'[t] = "xreadgroup"
                    /\ cur[t] \in DOMAIN pending'
                    /\ kv' = kv
          /\ (alive[t] /\ alive'[t] /\ pc[t] = "xreadgroup")
                 => pc'[t] # "off"]_vars
C28_Witness ==
    \E t \in Threads, e \in Entries :
        /\ alive[t] /\ pc[t] = "xreadgroup" /\ cur[t] = 0
        /\ HasJob(e) /\ e \in DOMAIN pending /\ ~InHand(e)
        /\ done[e] = {"setex_processing"}
        /\ pending[e] = ConsumerName(t)

\* C29: a job routed while the models-ready flag is false gets a failed
\* record that says the models are not loaded, with no classification,
\* embedding, retrieval or generation call; its entry is acknowledged and,
\* once acknowledged, never delivered again.
NotLoadedRun == Outcome(<<>>, "model_loaded", Raised("Ollama not loaded"))
C30_EntryWithoutJobIdIsDropped ==
    /\ [](\A e \in Entries :
              ~HasJob(e)
                  => /\ done[e] = {}
                     /\ \A t \in Threads :
                            cur[t] = e => (pc[t] = "xack_skip" /\ routed[t] = NoRun))
    /\ [][\A t \in Threads :
             (cur[t] # 0 /\ ~HasJob(cur[t]) /\ cur'[t] = 0 /\ alive'[t])
                 => kv' = kv]_vars
C30_Witness ==
    \E e \in acked :
        /\ ~HasJob(e)
        /\ done[e] = {}
        /\ \E f \in Entries : HasJob(f) /\ RecordOf(kv, JobOf(f)).status = "completed"

\* C22: every cited source has the id of a candidate that was passed to
\* the synthesizer, each candidate is cited at most once, and the cited
\* sources are in the order of the candidate list, not of the reply's text:
\* the cited sources are the entries of a strictly increasing selection of
\* the candidates.
Parsed == llama_result # NoParse
CitedFrom(cited, docs) ==
    \E f \in [1..Len(cited) -> 1..Len(docs)] :
        /\ \A i, k \in 1..Len(cited) : i < k => f[i] < f[k]
        /\ \A i \in 1..Len(cited) : cited[i] = SourceEntry(docs[f[i]])
C22_CitationsComeFromCandidates ==
    Parsed => CitedFrom(llama_result.cited_sources, documents)
C22_Witness ==
    /\ Parsed
    /\ Len(documents) = 2 /\ documents[1].file_id = IdA /\ documents[2].file_id = IdB
    /\ Contains(raw_response, IdB \o <<",", " ">> \o IdA)
    /\ Len(llama_result.cited_sources) = 2
    /\ llama_result.cited_sources[1].file_id = IdA
    /\ llama_result.cited_sources[2].file_id = IdB

\* C23: when the parse raises, at whatever point, the result is the whole
\* raw reply as the answer, no cited source and confidence MITTEL.
C23_ParseFailureGivesRawReply ==
    (Parsed /\ ParseRaises(raw_response, documents))
        => /\ llama_result.answer = raw_response
           /\ llama_result.cited_sources = <<>>
           /\ llama_result.confidence = "MITTEL"

\* C21: a search-mode response holds at most limit files, in the order of
\* the store, and the content of each is the first 500 units of the stored
\* content (the whole of it when it is shorter).
Searched == files # NoFiles
FirstUnitsOf(content, stored) ==
    /\ Len(content) <= PREVIEW_LENGTH
    /\ Len(content) <= Len(stored)
    /\ Len(stored) > Len(content) => Len(content) = PREVIEW_LENGTH
    /\ \A i \in 1..Len(content) : content[i] = stored[i]
C21_SearchResultIsBounded ==
    Searched =>
        /\ Len(files) <= search_limit
        /\ \E f \in [1..Len(files) -> 1..Len(file_embeddings)] :
              /\ \A i, k \in 1..Len(files) : i < k => f[i] < f[k]
              /\ \A i \in 1..Len(files) :
                    /\ files[i].file_id = file_embeddings[f[i]].file_id
                    /\ FirstUnitsOf(files[i].content, file_embeddings[f[i]].content)
C21_Witness ==
    /\ Searched
    /\ Len(SelectSeq(file_embeddings, InCorpus)) > search_limit
    /\ Len(files) = search_limit
    /\ \E i \in 1..Len(files) : Len(files[i].content) = PREVIEW_LENGTH
                                  /\ Len(file_embeddings[i].content) > PREVIEW_LENGTH

\* C25: a call of the router, from the worker loop or from the synchronous
\* route, leaves the similarity store, the job stream with its group state
\* and every status record as they were; what it returns is one of the
\* runs the models-ready flag and the replies of the services determine.
RoutedByWorker(t) == pc[t] = "route" /\ pc'[t] = "setex_result"
RoutedByRequest == <<hproc, hrouted, hresp>>' # <<hproc, hrouted, hresp>>
C25_RoutingChangesNothing ==
    /\ [][((\E t \in Threads : RoutedByWorker(t)) \/ RoutedByRequest)
              => /\ file_embeddings' = file_embeddings
                 /\ streamVars' = streamVars
                 /\ kv' = kv]_vars
    /\ [][\A t \in Threads :
             RoutedByWorker(t) => routed'[t] \in RouterRuns(model_loaded[t[1]])]_vars
    /\ [][(RoutedByRequest /\ hrouted' # NoRun)
              => hrouted' \in RouterRuns(model_loaded[hproc'])]_vars
C25_Witness ==
    /\ file_embeddings # <<>>
    /\ \E j \in JobIds : RecordOf(kv, j).status = "processing"
    /\ \E t \in Threads : pc[t] = "setex_result" /\ routed[t].raised = None
    /\ hrouted # NoRun /\ hrouted.raised = None
    /\ Len(stream) = 2

\* C24: the connections checked out of the pool are those held by the with
\* blocks under way; a thread holds one only between the getconn and the
\* putconn around its store operation, never while its embedding or its
\* generation call is in flight, and has returned it when the with block
\* was left, normally or by an exception; with no store operation under
\* way no connection is checked out.
InStoreOperation(f) == flow[f].pc \in {"execute", "putconn"}
C24_ConnectionHeldOnlyForStoreOperation ==
    /\ checked_out = Cardinality({f \in Flows : flow[f].conn})
    /\ \A f \in Flows : flow[f].conn <=> InStoreOperation(f)
    /\ \A f \in Flows : flow[f].pc \in {"embed", "generate"} => ~flow[f].conn
    /\ (\A f \in Flows : ~InStoreOperation(f)) => checked_out = 0
C24_Witness ==
    /\ checked_out = 0
    /\ flow["request"].pc = "done" /\ flow["request"].raised = "retrieve"
    /\ flow["worker"].pc = "generate"

\* C26: a call of init_db_pool makes at most max_retries attempts; every
\* attempt but the last ended in a connection failure and was followed by
\* a wait of base_delay * 2^(attempt - 1); there is no wait after the last
\* attempt; any other error ends the call at once; the call reports
\* success exactly when its last attempt succeeded.  A request that found
\* no pool and whose initialisation failed gets an error.
Attempts == Len(init.outcomes)
C26_PoolInitRetriesWithBackoff ==
    /\ init.attempt <= init.max_retries
    /\ Attempts <= init.max_retries
    /\ \A k \in 1..Len(init.slept) :
          /\ init.outcomes[k] = "operational_error"
          /\ init.slept[k] = init.base_delay * 2 ^ (k - 1)
    /\ init.pc = "attempt" => Len(init.slept) = Attempts
    /\ init.pc = "sleep" => Len(init.slept) = Attempts - 1
    /\ init.returned # None
          => /\ Len(init.slept) = Attempts - 1
             /\ (init.returned = "True") <=> (init.outcomes[Attempts] = "ok")
             /\ init.outcomes[Attempts] = "operational_error"
                    => Attempts = init.max_retries
    /\ (init.pc = "off" /\ init.caller = "request" /\ init.returned = "False")
          => request = "error"
    /\ request = "connection" => db_pool
C26_Witness ==
    /\ init.pc = "off" /\ init.caller = "request"
    /\ init.outcomes = <<"operational_error", "operational_error", "operational_error">>
    /\ init.slept = <<1, 2>>
    /\ request = "error"

\* C27: a health request during which the model service listed both models
\* throughout, with the pool initialised, is answered 200, whatever other
\* health requests and the background loop do meanwhile.
Answered(h) == chk[h].pc = "done"
C27_HealthyServiceAnswers200 ==
    \A h \in HealthThreads : (Answered(h) /\ chk[h].steady) => chk[h].code = 200

\* what does hold: the same, for a request that came in when no check or
\* pre-warm begun under an earlier report was still under way
HealthySettledServiceAnswers200 ==
    \A h \in HealthThreads :
        (Answered(h) /\ chk[h].steady /\ chk[h].alone) => chk[h].code = 200

====
